---- MODULE Spec2Model ----
(***************************************************************************)
(* A model of the golang-tftp read-only TFTP server: the packet codec of   *)
(* pkg/tftp/packet.go and the request handler / per-transfer send loop of  *)
(* the server's main package.                                              *)
(*                                                                         *)
(* Strings and datagrams are sequences of bytes (0..255).  A DATA packet   *)
(* put on the wire by the transfer is named by its block number and by the *)
(* range of the file its payload was read from.                            *)
(***************************************************************************)
EXTENDS Integers, Sequences, FiniteSets, TLC

(***************************************************************************)
(* Program constants                                                       *)
(***************************************************************************)
RRQ == 1
WRQ == 2
DATA == 3
ACK == 4
ERROR == 5

ErrNotDefined == 0
ErrFileNotFound == 1
ErrAccessViolation == 2

BlockSize == 512
MaxRetries == 3

ModeNetascii == <<110, 101, 116, 97, 115, 99, 105, 105>>
ModeOctet == <<111, 99, 116, 101, 116>>
ModeMail == <<109, 97, 105, 108>>

\* The sentinel errors of the codec.
ErrInvalidPacket == "ErrInvalidPacket"
ErrPacketTooShort == "ErrPacketTooShort"
ErrInvalidOpcode == "ErrInvalidOpcode"
ErrMissingNullTerm == "ErrMissingNullTerm"
NoErr == "nil"

(***************************************************************************)
(* Bounds of the model                                                     *)
(***************************************************************************)
\* longest filename / message drawn for the codec
MaxStrLen == 2
\* number of full 512-byte blocks in the largest file served
MaxFull == 2
\* datagrams a client may deliver to one transfer's dedicated channel
MaxRecv == 3

(***************************************************************************)
(* Byte helpers                                                            *)
(***************************************************************************)
\* binary.BigEndian.Uint16
Uint16(b) == b[1] * 256 + b[2]

\* binary.BigEndian.PutUint16 (v is a uint16)
PutUint16(v) == << (v % 65536) \div 256, v % 256 >>

\* packet[from:] of Go, on 1-indexed sequences: drops the first `from` bytes
SliceFrom(s, from) == SubSeq(s, from + 1, Len(s))

\* index (0-based, as in Go) of the first zero byte of s, or -1
RECURSIVE IndexNul(_, _)
IndexNul(s, i) ==
    IF i >= Len(s) THEN -1
    ELSE IF s[i + 1] = 0 THEN i
    ELSE IndexNul(s, i + 1)

(***************************************************************************)
(* Packet codec                                                            *)
(***************************************************************************)
isValidMode(mode) == mode \in {ModeNetascii, ModeOctet, ModeMail}

\* packRQ copying the mode over the filename's terminator
packRQ_NoSeparator(opcode, filename, mode) ==
    IF ~isValidMode(mode) THEN << >>
    ELSE LET lf == Len(filename)
             lm == Len(mode)
             op == PutUint16(opcode)
         IN  [i \in 1..(2 + lf + 1 + lm + 1) |->
                IF i <= 2 THEN op[i]
                ELSE IF i <= 2 + lf THEN filename[i - 2]
                ELSE IF i <= 2 + lf + lm THEN mode[i - (2 + lf)]
                ELSE 0]

\* packRQ: the buffer is allocated zeroed and then filled field by field.
\* An unrecognized mode panics: no packet is produced (the empty sequence).
packRQ(opcode, filename, mode) ==
    IF ~isValidMode(mode) THEN << >>
    ELSE LET lf == Len(filename)
             lm == Len(mode)
             op == PutUint16(opcode)
         IN  [i \in 1..(2 + lf + 1 + lm + 1) |->
                IF i <= 2 THEN op[i]
                ELSE IF i <= 2 + lf THEN filename[i - 2]
                ELSE IF i = 2 + lf + 1 THEN 0
                ELSE IF i <= 2 + lf + 1 + lm THEN mode[i - (2 + lf + 1)]
                ELSE 0]

\* unpackRQ taking a terminator in the last byte for the start of a mode
unpackRQ_OffByOne(packet) ==
    IF Len(packet) < 4
    THEN [err |-> ErrPacketTooShort, Filename |-> << >>, Mode |-> << >>]
    ELSE LET data == SliceFrom(packet, 2)
             filenameEnd == IndexNul(data, 0)
         IN  IF filenameEnd = -1
             THEN [err |-> ErrMissingNullTerm, Filename |-> << >>, Mode |-> << >>]
             ELSE IF filenameEnd + 1 > Len(data)
             THEN [err |-> ErrInvalidPacket, Filename |-> << >>, Mode |-> << >>]
             ELSE LET modeData == SliceFrom(data, filenameEnd + 1)
                      modeEnd == IndexNul(modeData, 0)
                  IN  IF modeEnd = -1
                      THEN [err |-> ErrMissingNullTerm, Filename |-> << >>,
                            Mode |-> << >>]
                      ELSE [err |-> NoErr,
                            Filename |-> SubSeq(data, 1, filenameEnd),
                            Mode |-> SubSeq(modeData, 1, modeEnd)]

unpackRQ(packet) ==
    IF Len(packet) < 4
    THEN [err |-> ErrPacketTooShort, Filename |-> << >>, Mode |-> << >>]
    ELSE LET data == SliceFrom(packet, 2)
             filenameEnd == IndexNul(data, 0)
         IN  IF filenameEnd = -1
             THEN [err |-> ErrMissingNullTerm, Filename |-> << >>, Mode |-> << >>]
             ELSE IF filenameEnd + 1 >= Len(data)
             THEN [err |-> ErrInvalidPacket, Filename |-> << >>, Mode |-> << >>]
             ELSE LET modeData == SliceFrom(data, filenameEnd + 1)
                      modeEnd == IndexNul(modeData, 0)
                  IN  IF modeEnd = -1
                      THEN [err |-> ErrMissingNullTerm, Filename |-> << >>,
                            Mode |-> << >>]
                      ELSE [err |-> NoErr,
                            Filename |-> SubSeq(data, 1, filenameEnd),
                            Mode |-> SubSeq(modeData, 1, modeEnd)]

SerializeRRQ(rq) == packRQ(RRQ, rq.Filename, rq.Mode)

SerializeWRQ(wr) == packRQ(WRQ, wr.Filename, wr.Mode)

\* ParseRRQ testing the length of the request before its opcode
ParseRRQ_LengthFirst(data) ==
    IF Len(data) < 4
    THEN [err |-> ErrPacketTooShort, Filename |-> << >>, Mode |-> << >>]
    ELSE IF Uint16(SubSeq(data, 1, 2)) # RRQ
    THEN [err |-> ErrInvalidOpcode, Filename |-> << >>, Mode |-> << >>]
    ELSE unpackRQ(data)

ParseRRQ(data) ==
    IF Len(data) < 2 \/ Uint16(SubSeq(data, 1, 2)) # RRQ
    THEN [err |-> ErrInvalidOpcode, Filename |-> << >>, Mode |-> << >>]
    ELSE unpackRQ(data)

ParseWRQ(data) ==
    IF Len(data) < 2 \/ Uint16(SubSeq(data, 1, 2)) # WRQ
    THEN [err |-> ErrInvalidOpcode, Filename |-> << >>, Mode |-> << >>]
    ELSE unpackRQ(data)

PackDATA(block, data) ==
    [i \in 1..(4 + Len(data)) |->
        IF i <= 2 THEN PutUint16(DATA)[i]
        ELSE IF i <= 4 THEN PutUint16(block)[i - 2]
        ELSE data[i - 4]]

ParseDATA(packet) ==
    IF Len(packet) < 4
    THEN [err |-> ErrPacketTooShort, Block |-> 0, Data |-> << >>]
    ELSE IF Uint16(SubSeq(packet, 1, 2)) # DATA
    THEN [err |-> ErrInvalidOpcode, Block |-> 0, Data |-> << >>]
    ELSE [err |-> NoErr, Block |-> Uint16(SubSeq(packet, 3, 4)),
          Data |-> SliceFrom(packet, 4)]

PackACK(block) ==
    [i \in 1..4 |-> IF i <= 2 THEN PutUint16(ACK)[i] ELSE PutUint16(block)[i - 2]]

ParseACK(packet) ==
    IF Len(packet) < 4
    THEN [err |-> ErrPacketTooShort, Block |-> 0]
    ELSE IF Uint16(SubSeq(packet, 1, 2)) # ACK
    THEN [err |-> ErrInvalidOpcode, Block |-> 0]
    ELSE [err |-> NoErr, Block |-> Uint16(SubSeq(packet, 3, 4))]

\* PackERROR: copy(packet[4:], msg) and then the last byte is set to zero.
PackERROR(code, msg) ==
    LET l == 4 + Len(msg) + 1
    IN  [i \in 1..l |->
            IF i = l THEN 0
            ELSE IF i <= 2 THEN PutUint16(ERROR)[i]
            ELSE IF i <= 4 THEN PutUint16(code)[i - 2]
            ELSE msg[i - 4]]

\* ParseERROR keeping the terminator in the message
ParseERROR_KeepsNul(packet) ==
    IF Len(packet) < 5
    THEN [err |-> ErrPacketTooShort, Code |-> 0, Message |-> << >>]
    ELSE IF Uint16(SubSeq(packet, 1, 2)) # ERROR
    THEN [err |-> ErrInvalidOpcode, Code |-> 0, Message |-> << >>]
    ELSE IF packet[Len(packet)] # 0
    THEN [err |-> ErrMissingNullTerm, Code |-> 0, Message |-> << >>]
    ELSE [err |-> NoErr, Code |-> Uint16(SubSeq(packet, 3, 4)),
          Message |-> SubSeq(packet, 5, Len(packet))]

ParseERROR(packet) ==
    IF Len(packet) < 5
    THEN [err |-> ErrPacketTooShort, Code |-> 0, Message |-> << >>]
    ELSE IF Uint16(SubSeq(packet, 1, 2)) # ERROR
    THEN [err |-> ErrInvalidOpcode, Code |-> 0, Message |-> << >>]
    ELSE IF packet[Len(packet)] # 0
    THEN [err |-> ErrMissingNullTerm, Code |-> 0, Message |-> << >>]
    ELSE [err |-> NoErr, Code |-> Uint16(SubSeq(packet, 3, 4)),
          Message |-> SubSeq(packet, 5, Len(packet) - 1)]

(***************************************************************************)
(* Lexical path handling (path/filepath, Unix separator)                   *)
(***************************************************************************)
Separator == 47
Dot == <<46>>
DotDot == <<46, 46>>

\* what filepath.Abs("./tftp-root") gave at startup: "/srv/tftp-root"
BaseDir == <<47, 115, 114, 118, 47, 116, 102, 116, 112, 45, 114, 111, 111, 116>>

\* the elements of a path between separators (empty elements included)
RECURSIVE SplitPath(_, _, _)
SplitPath(s, i, cur) ==
    IF i > Len(s) THEN << cur >>
    ELSE IF s[i] = Separator THEN << cur >> \o SplitPath(s, i + 1, << >>)
    ELSE SplitPath(s, i + 1, Append(cur, s[i]))

\* the elements joined by separators
RECURSIVE JoinPath(_)
JoinPath(elems) ==
    IF Len(elems) = 0 THEN << >>
    ELSE IF Len(elems) = 1 THEN elems[1]
    ELSE elems[1] \o << Separator >> \o JoinPath(Tail(elems))

IsRooted(path) == Len(path) > 0 /\ path[1] = Separator

\* The element stack filepath.Clean builds: empty and "." elements are
\* skipped, ".." removes the last real element, is dropped at the root of a
\* rooted path and is kept at the front of a relative one.
RECURSIVE CleanElems(_, _, _)
CleanElems(elems, out, rooted) ==
    IF Len(elems) = 0 THEN out
    ELSE LET e == Head(elems)
             rest == Tail(elems)
         IN  IF e = << >> \/ e = Dot THEN CleanElems(rest, out, rooted)
             ELSE IF e = DotDot
             THEN IF Len(out) > 0 /\ out[Len(out)] # DotDot
                  THEN CleanElems(rest, SubSeq(out, 1, Len(out) - 1), rooted)
                  ELSE IF ~rooted
                  THEN CleanElems(rest, Append(out, DotDot), rooted)
                  ELSE CleanElems(rest, out, rooted)
             ELSE CleanElems(rest, Append(out, e), rooted)

\* filepath.Clean
Clean(path) ==
    IF Len(path) = 0 THEN Dot
    ELSE LET rooted == IsRooted(path)
             out == CleanElems(SplitPath(path, 1, << >>), << >>, rooted)
         IN  IF rooted THEN << Separator >> \o JoinPath(out)
             ELSE IF Len(out) = 0 THEN Dot
             ELSE JoinPath(out)

\* filepath.Join of two elements, the second of which is never empty here
Join(a, b) ==
    IF Len(a) = 0 THEN Clean(b) ELSE Clean(a \o << Separator >> \o b)

\* the elements of a cleaned path ("." and "/" have none)
PathElems(cleaned) == CleanElems(SplitPath(cleaned, 1, << >>), << >>, IsRooted(cleaned))

\* length of the longest common prefix of two element sequences
RECURSIVE CommonLen(_, _)
CommonLen(a, b) ==
    IF Len(a) = 0 \/ Len(b) = 0 \/ Head(a) # Head(b) THEN 0
    ELSE 1 + CommonLen(Tail(a), Tail(b))

\* filepath.Rel: "." for equal paths, an error when only one of the two is
\* rooted, else one ".." per remaining element of the base followed by the
\* remaining elements of the target.
Rel(basepath, targpath) ==
    LET base == Clean(basepath)
        targ == Clean(targpath)
        be == PathElems(base)
        te == PathElems(targ)
        k == CommonLen(be, te)
    IN  IF targ = base THEN [err |-> NoErr, path |-> Dot]
        ELSE IF IsRooted(base) # IsRooted(targ) THEN [err |-> "RelError", path |-> << >>]
        ELSE IF k < Len(be) /\ be[k + 1] = DotDot THEN [err |-> "RelError", path |-> << >>]
        ELSE [err |-> NoErr,
              path |-> JoinPath([i \in 1..(Len(be) - k) |-> DotDot]
                                \o SubSeq(te, k + 1, Len(te)))]

\* strings.HasPrefix
HasPrefix(s, prefix) ==
    Len(s) >= Len(prefix) /\ SubSeq(s, 1, Len(prefix)) = prefix

(***************************************************************************)
(* Environment: request datagrams, files, client datagrams                 *)
(***************************************************************************)
MsgInvalidRRQ == <<73, 110, 118, 97, 108, 105, 100, 32, 82, 82, 81, 32, 112, 97, 99, 107, 101, 116>>
MsgOnlyRRQ == <<79, 110, 108, 121, 32, 82, 82, 81, 32, 105, 115, 32, 115, 117, 112, 112, 111, 114, 116, 101, 100>>
MsgUnsupportedMode == <<85, 110, 115, 117, 112, 112, 111, 114, 116, 101, 100, 32, 116, 114, 97, 110, 115, 102, 101, 114, 32, 109, 111, 100, 101>>
MsgAccessDenied == <<65, 99, 99, 101, 115, 115, 32, 100, 101, 110, 105, 101, 100>>
MsgFileNotFound == <<70, 105, 108, 101, 32, 110, 111, 116, 32, 102, 111, 117, 110, 100>>
MsgCannotOpen == <<67, 97, 110, 110, 111, 116, 32, 111, 112, 101, 110, 32, 102, 105, 108, 101>>
MsgNoAck == <<84, 114, 97, 110, 115, 102, 101, 114, 32, 102, 97, 105, 108, 101, 100, 58, 32, 110, 111, 32, 65, 67, 75>>

\* "a", "b", "../../etc/passwd", "../tftp-root/a", "/a", "a/../../x", "..a",
\* "", ".."
NameA == <<97>>
NameB == <<98>>
NameEtcPasswd == <<46, 46, 47, 46, 46, 47, 101, 116, 99, 47, 112, 97, 115, 115, 119, 100>>
NameBackIn == <<46, 46, 47, 116, 102, 116, 112, 45, 114, 111, 111, 116, 47, 97>>
NameRooted == <<47, 97>>
NameUpOne == <<97, 47, 46, 46, 47, 46, 46, 47, 120>>
NameDotDotA == <<46, 46, 97>>
NameEmpty == << >>
NameParent == <<46, 46>>

FileNames ==
    {NameA, NameB, NameEtcPasswd, NameUpOne, NameDotDotA, NameEmpty,
     NameParent}

\* "OCTET" and "binary": modes the server does not recognize
ModeUpperOctet == <<79, 67, 84, 69, 84>>
ModeBinary == <<98, 105, 110, 97, 114, 121>>

\* the bytes of a request as a client frames it (any mode string)
RawRQ(opcode, filename, mode) ==
    PutUint16(opcode) \o filename \o <<0>> \o mode \o <<0>>

\* datagrams that can arrive on the main socket
RequestPackets ==
    {RawRQ(RRQ, f, ModeOctet) : f \in FileNames}
    \cup {RawRQ(RRQ, NameRooted, ModeNetascii),
          RawRQ(RRQ, NameBackIn, ModeMail),
          RawRQ(RRQ, NameA, ModeUpperOctet), RawRQ(RRQ, NameA, << >>),
          RawRQ(RRQ, NameEtcPasswd, ModeBinary),
          RawRQ(RRQ, NameParent, ModeUpperOctet),
          RawRQ(WRQ, NameA, ModeOctet),
          << >>, <<0>>, <<0, 1>>, <<0, 1, 97, 0>>, <<0, 1, 97, 98>>,
          <<0, 1, 97, 0, 111>>, PackACK(1), <<0, 9, 0, 0>>}

\* sizes of the files under the root
FileSizes == {k * BlockSize + r : k \in 0..MaxFull, r \in {0, BlockSize - 1}}

\* datagrams the client side of a dedicated channel can deliver while block
\* b is awaited: the ACK of the block before, of b and of the block after,
\* the ACK of b followed by a stray byte, an empty and a 3-byte datagram, an
\* ERROR and a DATA packet
ClientDatagrams(b) ==
    {PackACK(x) : x \in {(b + 65535) % 65536, b, (b + 1) % 65536}}
    \cup {PackACK(b) \o <<9>>}
    \cup {<< >>, <<0, 4, 0>>, PackERROR(0, << >>), PackDATA(1, << >>)}

(***************************************************************************)
(* State                                                                   *)
(***************************************************************************)
VARIABLES
    pc,         \* position of the task: listen, handle, serve, resolve, open,
                \* dial, read, send, wait, after, done
    packet,     \* the slice handed to handleRequest, buf[:n], as it reads now
    arrived,    \* the datagram whose arrival spawned the handler
    rrq,        \* the parsed request
    filename,   \* the cleaned path under BaseDir
    file,       \* the result of os.Open: [kind, size, off], kind "none"
                \* before the call, "notexist" or "denied" when it failed
    block,      \* current block number (uint16)
    n,          \* bytes returned by the last file.Read
    dataPacket, \* the DATA packet being sent: [block, off, len]
    retries,    \* timeouts counted for the current block
    ackBuf,     \* the 4-byte receive buffer of the current wait
    ackN,       \* bytes ReadFrom stored in ackBuf
    sentMain,   \* packets written to the main socket (serverConn), in order
    sentData,   \* DATA packets written to the dedicated channel
    sendCount,  \* transmissions of the current block (counted up to
                \* MaxRetries + MaxRecv)
    acked,      \* blocks whose matching ACK ended a wait
    discards,   \* datagrams received and discarded by this transfer
                \* (counted up to MaxRecv)
    rcvdAcks,   \* block numbers of the ACK datagrams the channel delivered
    lastRecv,   \* the datagram the last wait received, whole
    timeouts,   \* ack-wait timeouts since the current block was read
    lastEvent,  \* how the last wait ended: none, timeout, recv
    resolved,   \* the path of the request was resolved
    opened,     \* os.Open was called for the request
    dialed,     \* the dedicated channel exists
    outcome,    \* none, dropped, error, completed, abandoned
    cstage,     \* codec exercise: idle, input (drawn), done (applied)
    cop,        \* codec exercise: the operation applied
    cin,        \* codec exercise: its input
    cwire,      \* codec exercise: the bytes involved
    cout        \* codec exercise: its result

taskVars ==
    << pc, packet, arrived, rrq, filename, file, block, n, dataPacket, retries, ackBuf,
       ackN, sentMain, sentData, sendCount, acked, discards, rcvdAcks,
       lastRecv, timeouts, lastEvent, resolved, opened, dialed, outcome >>

codecVars == << cstage, cop, cin, cwire, cout >>

vars == << taskVars, codecVars >>

NoFile == [kind |-> "none", size |-> 0, off |-> 0]
NoRRQ == [Filename |-> << >>, Mode |-> << >>]
NoData == [block |-> 0, off |-> 0, len |-> 0]
ZeroBuf == <<0, 0, 0, 0>>

TaskInit ==
    /\ pc = "listen"
    /\ packet = << >>
    /\ arrived = << >>
    /\ rrq = NoRRQ
    /\ filename = << >>
    /\ file = NoFile
    /\ block = 0
    /\ n = 0
    /\ dataPacket = NoData
    /\ retries = 0
    /\ ackBuf = ZeroBuf
    /\ ackN = 0
    /\ sentMain = << >>
    /\ sentData = {}
    /\ sendCount = 0
    /\ acked = {}
    /\ discards = 0
    /\ rcvdAcks = {}
    /\ lastRecv = << >>
    /\ timeouts = 0
    /\ lastEvent = "none"
    /\ resolved = FALSE
    /\ opened = FALSE
    /\ dialed = FALSE
    /\ outcome = "none"

CodecIdle ==
    /\ cstage = "idle"
    /\ cop = "idle"
    /\ cin = << >>
    /\ cwire = << >>
    /\ cout = << >>

Init == TaskInit /\ CodecIdle

(***************************************************************************)
(* The harness and handleRequest                                           *)
(***************************************************************************)
requestVars == << packet, arrived, rrq, filename >>
loopVars == << block, n, dataPacket, retries, ackBuf, ackN >>
waitVars == << discards, rcvdAcks, lastRecv, timeouts, lastEvent >>
stageVars == << resolved, opened, dialed >>

\* a history counter advanced by one event; it stops at max, the events
\* themselves go on
Counted(c, max) == IF c < max THEN c + 1 ELSE c

\* sendError: the packet is framed by PackERROR and written to serverConn
sendError(code, msg) == Append(sentMain, PackERROR(code, msg))

\* main: one datagram is read from the main socket and handed to a handler
Receive ==
    /\ pc = "listen"
    /\ \E p \in RequestPackets : packet' = p
    /\ arrived' = packet'
    /\ pc' = "handle"
    /\ UNCHANGED << rrq, filename, file, loopVars, waitVars, stageVars,
                    sentMain, sentData, sendCount, acked, outcome, codecVars >>

\* buf[:n] after the first k bytes of datagram d were stored into buf
Overwritten(view, d, k) ==
    [i \in 1..Len(view) |-> IF i <= k /\ i <= Len(d) THEN d[i] ELSE view[i]]

\* main, next iteration: ReadFromUDP stores the next datagram into the same
\* buf while the handler spawned for the previous one has not read its
\* packet yet.  The handler's slice keeps its length and shows what buf holds
\* when it reads: the store is not synchronized with the handler, which may
\* see any prefix of the new datagram over the old bytes.  One further
\* datagram is followed.
ReceiveNext ==
    /\ pc = "handle"
    /\ packet = arrived
    /\ \E d \in RequestPackets : \E k \in 1..Len(d) :
          packet' = Overwritten(packet, d, k)
    /\ UNCHANGED << pc, arrived, rrq, filename, file, loopVars, waitVars,
                    stageVars, sentMain, sentData, sendCount, acked, outcome,
                    codecVars >>

\* handleRequest: a datagram too short to carry an opcode is dropped; a
\* read request that parses starts serveReadRequest; one that does not, and
\* every other opcode, is answered with an Error on the main socket.
handleRequest ==
    /\ pc = "handle"
    /\ IF Len(packet) < 2
       THEN /\ pc' = "done"
            /\ outcome' = "dropped"
            /\ UNCHANGED << rrq, sentMain >>
       ELSE IF Uint16(SubSeq(packet, 1, 2)) = RRQ
       THEN LET parsed == ParseRRQ(packet)
            IN  IF parsed.err # NoErr
                THEN /\ sentMain' = sendError(ErrNotDefined, MsgInvalidRRQ)
                     /\ pc' = "done"
                     /\ outcome' = "error"
                     /\ UNCHANGED rrq
                ELSE /\ rrq' = [Filename |-> parsed.Filename,
                                Mode |-> parsed.Mode]
                     /\ pc' = "serve"
                     /\ UNCHANGED << sentMain, outcome >>
       ELSE /\ sentMain' = sendError(ErrNotDefined, MsgOnlyRRQ)
            /\ pc' = "done"
            /\ outcome' = "error"
            /\ UNCHANGED rrq
    /\ UNCHANGED << packet, arrived, filename, file, loopVars, waitVars,
                    stageVars, sentData, sendCount, acked, codecVars >>

(***************************************************************************)
(* serveReadRequest: validation, path resolution, open, dial                *)
(***************************************************************************)
\* serveReadRequest without its mode test
ModeSupported_Always(mode) == TRUE

\* the mode test of serveReadRequest
ModeSupported(mode) ==
    ~(mode # ModeOctet /\ mode # ModeNetascii /\ mode # ModeMail)

ValidateMode ==
    /\ pc = "serve"
    /\ IF ModeSupported(rrq.Mode)
       THEN /\ pc' = "resolve"
            /\ UNCHANGED << sentMain, outcome >>
       ELSE /\ sentMain' = sendError(ErrNotDefined, MsgUnsupportedMode)
            /\ pc' = "done"
            /\ outcome' = "error"
    /\ UNCHANGED << requestVars, file, loopVars, waitVars, stageVars,
                    sentData, sendCount, acked, codecVars >>

\* requestedPath, cleaned
ResolvedPath(name) == Clean(Join(BaseDir, Clean(name)))

\* PathRejected testing for the prefix "../" only
PathRejected_Slash(path) ==
    LET rel == Rel(BaseDir, path)
    IN  rel.err # NoErr \/ HasPrefix(rel.path, DotDot \o << Separator >>)

\* the two rejections of the path check: Rel fails, or relPath starts with ".."
PathRejected(path) ==
    LET rel == Rel(BaseDir, path)
    IN  rel.err # NoErr \/ HasPrefix(rel.path, DotDot)

ResolvePath ==
    /\ pc = "resolve"
    /\ filename' = ResolvedPath(rrq.Filename)
    /\ resolved' = TRUE
    /\ IF PathRejected(filename')
       THEN /\ sentMain' = sendError(ErrAccessViolation, MsgAccessDenied)
            /\ pc' = "done"
            /\ outcome' = "error"
       ELSE /\ pc' = "open"
            /\ UNCHANGED << sentMain, outcome >>
    /\ UNCHANGED << packet, arrived, rrq, file, loopVars, waitVars, opened,
                    dialed, sentData, sendCount, acked, codecVars >>

\* os.Open: the root itself is a directory (the open succeeds), "a" under
\* the root is a regular file of some size, and any other path does not
\* exist or cannot be opened for another reason.
OpenResults(path) ==
    IF path = BaseDir
    THEN {[kind |-> "dir", size |-> 0, off |-> 0]}
    ELSE IF path = BaseDir \o << Separator >> \o NameA
    THEN {[kind |-> "regular", size |-> sz, off |-> 0] : sz \in FileSizes}
    ELSE {[kind |-> "notexist", size |-> 0, off |-> 0],
          [kind |-> "denied", size |-> 0, off |-> 0]}

\* OpenFile reporting every failed open as a missing file
OpenFile_NotFoundOnly ==
    /\ pc = "open"
    /\ opened' = TRUE
    /\ \E r \in OpenResults(filename) :
          /\ file' = r
          /\ IF r.kind \in {"notexist", "denied"}
             THEN /\ sentMain' = sendError(ErrFileNotFound, MsgFileNotFound)
                  /\ pc' = "done"
                  /\ outcome' = "error"
             ELSE /\ pc' = "dial"
                  /\ UNCHANGED << sentMain, outcome >>
    /\ UNCHANGED << requestVars, loopVars, waitVars, resolved, dialed,
                    sentData, sendCount, acked, codecVars >>

\* os.Open and the classification of its error; `file` records the result
\* of the call, its kind standing for the error
OpenFile ==
    /\ pc = "open"
    /\ opened' = TRUE
    /\ \E r \in OpenResults(filename) :
          /\ file' = r
          /\ IF r.kind = "notexist"
             THEN /\ sentMain' = sendError(ErrFileNotFound, MsgFileNotFound)
                  /\ pc' = "done"
                  /\ outcome' = "error"
             ELSE IF r.kind = "denied"
             THEN /\ sentMain' = sendError(ErrAccessViolation, MsgCannotOpen)
                  /\ pc' = "done"
                  /\ outcome' = "error"
             ELSE /\ pc' = "dial"
                  /\ UNCHANGED << sentMain, outcome >>
    /\ UNCHANGED << requestVars, loopVars, waitVars, resolved, dialed,
                    sentData, sendCount, acked, codecVars >>

\* net.DialUDP and the start of the transfer: block := 1
Dial ==
    /\ pc = "dial"
    /\ \/ /\ dialed' = TRUE
          /\ block' = 1
          /\ pc' = "read"
          /\ UNCHANGED outcome
       \/ /\ pc' = "done"
          /\ outcome' = "abandoned"
          /\ UNCHANGED << dialed, block >>
    /\ UNCHANGED << requestVars, file, n, dataPacket, retries, ackBuf, ackN,
                    waitVars, resolved, opened, sentMain, sentData, sendCount,
                    acked, codecVars >>

(***************************************************************************)
(* serveReadRequest: the block loop and its sendLoop                       *)
(***************************************************************************)
\* LoopTop with the bound included: one transmission more
LoopTop_Inclusive(r) == IF r <= MaxRetries THEN "send" ELSE "after"

\* the condition of sendLoop: where control goes with r retries counted
LoopTop(r) == IF r < MaxRetries THEN "send" ELSE "after"

\* file.Read(buf) on a regular file: up to BlockSize bytes from the offset
ReadLen(f) == IF f.size - f.off < BlockSize THEN f.size - f.off ELSE BlockSize

\* what file.Read(buf) may return: a regular file fills the buffer up to the
\* end of the file; a stream (a FIFO, a device) may also return with part of
\* what it has still to give (here half of it)
ReadLens(f) ==
    IF f.kind = "stream" /\ ReadLen(f) >= 2
    THEN {ReadLen(f), ReadLen(f) \div 2}
    ELSE {ReadLen(f)}

\* One iteration of the block loop up to sendLoop: the next chunk is read and
\* framed, retries is reset.  A failed read (a directory, an I/O error) ends
\* the transfer without a packet.
ReadBlock ==
    /\ pc = "read"
    /\ \/ /\ file.kind \in {"regular", "stream"}
          /\ \E k \in ReadLens(file) : n' = k
          /\ file' = [file EXCEPT !.off = file.off + n']
          /\ dataPacket' = [block |-> block, off |-> file.off, len |-> n']
          /\ retries' = 0
          /\ sendCount' = 0
          /\ timeouts' = 0
          /\ pc' = LoopTop(retries')
          /\ UNCHANGED outcome
       \/ /\ pc' = "done"
          /\ outcome' = "abandoned"
          /\ UNCHANGED << n, file, dataPacket, retries, sendCount, timeouts >>
    /\ UNCHANGED << requestVars, block, ackBuf, ackN, discards, rcvdAcks,
                    lastRecv, lastEvent, stageVars, sentMain, sentData, acked,
                    codecVars >>

\* conn.Write(dataPacket), then a fresh ackBuf for the wait
SendData ==
    /\ pc = "send"
    /\ \/ /\ sentData' = sentData \cup {dataPacket}
          /\ sendCount' = Counted(sendCount, MaxRetries + MaxRecv)
          /\ ackBuf' = ZeroBuf
          /\ ackN' = 0
          /\ lastEvent' = "none"
          /\ lastRecv' = << >>
          /\ pc' = "wait"
          /\ UNCHANGED outcome
       \/ /\ pc' = "done"
          /\ outcome' = "abandoned"
          /\ UNCHANGED << sentData, sendCount, ackBuf, ackN, lastEvent,
                          lastRecv >>
    /\ UNCHANGED << requestVars, file, block, n, dataPacket, retries, discards,
                    rcvdAcks, timeouts, stageVars, sentMain, acked, codecVars >>

\* conn.ReadFrom ends by the read deadline
Timeout ==
    /\ pc = "wait"
    /\ retries' = retries + 1
    /\ timeouts' = timeouts + 1
    /\ lastEvent' = "timeout"
    /\ pc' = LoopTop(retries')
    /\ UNCHANGED << requestVars, file, block, n, dataPacket, ackBuf, ackN,
                    discards, rcvdAcks, lastRecv, stageVars, sentMain,
                    sentData, sendCount, acked, outcome, codecVars >>

\* conn.ReadFrom fails with an error that is not a timeout
ReadError ==
    /\ pc = "wait"
    /\ lastEvent' = "error"
    /\ pc' = "done"
    /\ outcome' = "abandoned"
    /\ UNCHANGED << requestVars, file, loopVars, discards, rcvdAcks, lastRecv,
                    timeouts, stageVars, sentMain, sentData, sendCount, acked,
                    codecVars >>

\* what ReadFrom leaves in a zeroed 4-byte buffer for datagram d
Fill(d) == [i \in 1..4 |-> IF i <= Len(d) THEN d[i] ELSE 0]

\* AckMatches without the comparison of the block number
AckMatches_AnyBlock(buf, cnt, b) ==
    /\ cnt = 4
    /\ ParseACK(buf).err = NoErr

\* the datagram in ackBuf ends the wait for block b
AckMatches(buf, cnt, b) ==
    /\ cnt = 4
    /\ ParseACK(buf).err = NoErr
    /\ ParseACK(buf).Block = b

\* RecvDatagram counting a discarded datagram as a retry
RecvDatagram_CountsRetry ==
    /\ pc = "wait"
    /\ \E d \in ClientDatagrams(block) :
          /\ lastRecv' = d
          /\ ackBuf' = Fill(d)
          /\ ackN' = IF Len(d) < 4 THEN Len(d) ELSE 4
    /\ rcvdAcks' = IF ParseACK(lastRecv').err = NoErr
                   THEN rcvdAcks \cup {ParseACK(lastRecv').Block}
                   ELSE rcvdAcks
    /\ lastEvent' = "recv"
    /\ IF AckMatches(ackBuf', ackN', block)
       THEN /\ acked' = acked \cup {block}
            /\ pc' = "after"
            /\ UNCHANGED << discards, retries >>
       ELSE /\ discards' = Counted(discards, MaxRecv)
            /\ retries' = retries + 1
            /\ pc' = LoopTop(retries')
            /\ UNCHANGED acked
    /\ UNCHANGED << requestVars, file, block, n, dataPacket, timeouts,
                    stageVars, sentMain, sentData, sendCount, outcome,
                    codecVars >>

\* conn.ReadFrom returns a datagram: a matching ACK leaves sendLoop, anything
\* else continues it
RecvDatagram ==
    /\ pc = "wait"
    /\ \E d \in ClientDatagrams(block) :
          /\ lastRecv' = d
          /\ ackBuf' = Fill(d)
          /\ ackN' = IF Len(d) < 4 THEN Len(d) ELSE 4
    /\ rcvdAcks' = IF ParseACK(lastRecv').err = NoErr
                   THEN rcvdAcks \cup {ParseACK(lastRecv').Block}
                   ELSE rcvdAcks
    /\ lastEvent' = "recv"
    /\ IF AckMatches(ackBuf', ackN', block)
       THEN /\ acked' = acked \cup {block}
            /\ pc' = "after"
            /\ UNCHANGED discards
       ELSE /\ discards' = Counted(discards, MaxRecv)
            /\ pc' = LoopTop(retries)
            /\ UNCHANGED acked
    /\ UNCHANGED << requestVars, file, block, n, dataPacket, retries, timeouts,
                    stageVars, sentMain, sentData, sendCount, outcome,
                    codecVars >>

\* AfterLoop taking a full block for the last one
AfterLoop_FullBlockEnds ==
    /\ pc = "after"
    /\ IF retries >= MaxRetries
       THEN /\ sentMain' = sendError(ErrNotDefined, MsgNoAck)
            /\ pc' = "done"
            /\ outcome' = "error"
            /\ UNCHANGED block
       ELSE /\ block' = (block + 1) % 65536
            /\ IF n <= BlockSize
               THEN /\ pc' = "done"
                    /\ outcome' = "completed"
               ELSE /\ pc' = "read"
                    /\ UNCHANGED outcome
            /\ UNCHANGED sentMain
    /\ UNCHANGED << requestVars, file, n, dataPacket, retries, ackBuf, ackN,
                    waitVars, stageVars, sentData, sendCount, acked,
                    codecVars >>

\* AfterLoop without the return after the Error of retry exhaustion
AfterLoop_NoReturn ==
    /\ pc = "after"
    /\ IF retries >= MaxRetries
       THEN /\ sentMain' = sendError(ErrNotDefined, MsgNoAck)
            /\ outcome' = "error"
       ELSE UNCHANGED << sentMain, outcome >>
    /\ block' = (block + 1) % 65536
    /\ IF n < BlockSize
       THEN /\ pc' = "done"
            /\ outcome' = IF retries >= MaxRetries THEN "error" ELSE "completed"
       ELSE pc' = "read"
    /\ UNCHANGED << requestVars, file, n, dataPacket, retries, ackBuf, ackN,
                    waitVars, stageVars, sentData, sendCount, acked,
                    codecVars >>

\* AfterLoop testing for the short block before the retry count
AfterLoop_ShortFirst ==
    /\ pc = "after"
    /\ IF n < BlockSize
       THEN /\ block' = (block + 1) % 65536
            /\ pc' = "done"
            /\ outcome' = "completed"
            /\ UNCHANGED sentMain
       ELSE IF retries >= MaxRetries
       THEN /\ sentMain' = sendError(ErrNotDefined, MsgNoAck)
            /\ pc' = "done"
            /\ outcome' = "error"
            /\ UNCHANGED block
       ELSE /\ block' = (block + 1) % 65536
            /\ pc' = "read"
            /\ UNCHANGED << sentMain, outcome >>
    /\ UNCHANGED << requestVars, file, n, dataPacket, retries, ackBuf, ackN,
                    waitVars, stageVars, sentData, sendCount, acked,
                    codecVars >>

\* after sendLoop: retry exhaustion sends the Error and returns; otherwise
\* the block number advances and a short block completes the transfer
AfterLoop ==
    /\ pc = "after"
    /\ IF retries >= MaxRetries
       THEN /\ sentMain' = sendError(ErrNotDefined, MsgNoAck)
            /\ pc' = "done"
            /\ outcome' = "error"
            /\ UNCHANGED block
       ELSE /\ block' = (block + 1) % 65536
            /\ IF n < BlockSize
               THEN /\ pc' = "done"
                    /\ outcome' = "completed"
               ELSE /\ pc' = "read"
                    /\ UNCHANGED outcome
            /\ UNCHANGED sentMain
    /\ UNCHANGED << requestVars, file, n, dataPacket, retries, ackBuf, ackN,
                    waitVars, stageVars, sentData, sendCount, acked,
                    codecVars >>

Next ==
    \/ Receive
    \/ handleRequest
    \/ ValidateMode
    \/ ResolvePath
    \/ OpenFile
    \/ Dial
    \/ ReadBlock
    \/ SendData
    \/ Timeout
    \/ ReadError
    \/ RecvDatagram
    \/ AfterLoop

\* One request from its arrival to its terminal event.  The handler parses
\* its packet before the receive loop stores another datagram; the other
\* interleavings are those of RaceSpec.
Spec == Init /\ [][Next]_vars

\* a step of a started transfer: of its block loop or of its sendLoop
TransferStep ==
    ReadBlock \/ SendData \/ Timeout \/ ReadError \/ RecvDatagram \/ AfterLoop

\* Spec with the fairness the runtime gives a started transfer: its task
\* takes the step it can take, and an ack wait ends by a datagram, by its
\* deadline or by an error.  Nothing is assumed about which of them ends a
\* wait.
FairSpec == Spec /\ WF_vars(TransferStep)

\* the harness's receive loop running on while a spawned handler has not
\* parsed its packet
RaceNext == Receive \/ ReceiveNext \/ handleRequest

RaceSpec == Init /\ [][RaceNext]_vars

\* sizes of the streams served
StreamSizes == {sz \in FileSizes : sz <= BlockSize}

\* A transfer at the start of its block loop, serving "b" under the root,
\* which is a stream: the request passed the mode and path checks, os.Open
\* and net.DialUDP succeeded.
StreamInit ==
    /\ pc = "read"
    /\ packet = RawRQ(RRQ, NameB, ModeOctet)
    /\ arrived = packet
    /\ rrq = [Filename |-> NameB, Mode |-> ModeOctet]
    /\ filename = ResolvedPath(NameB)
    /\ \E sz \in StreamSizes : file = [kind |-> "stream", size |-> sz, off |-> 0]
    /\ block = 1
    /\ n = 0
    /\ dataPacket = NoData
    /\ retries = 0
    /\ ackBuf = ZeroBuf
    /\ ackN = 0
    /\ sentMain = << >>
    /\ sentData = {}
    /\ sendCount = 0
    /\ acked = {}
    /\ discards = 0
    /\ rcvdAcks = {}
    /\ lastRecv = << >>
    /\ timeouts = 0
    /\ lastEvent = "none"
    /\ resolved = TRUE
    /\ opened = TRUE
    /\ dialed = TRUE
    /\ outcome = "none"
    /\ CodecIdle

StreamSpec == StreamInit /\ [][TransferStep]_vars

(***************************************************************************)
(* Properties of a transfer (under Spec)                                   *)
(***************************************************************************)
\* the datagram handed to the handler is a well-formed read request
ReqParsed == Len(packet) >= 2 /\ ParseRRQ(packet).err = NoErr
ReqName == ParseRRQ(packet).Filename
ReqMode == ParseRRQ(packet).Mode

\* the blocks for which a DATA packet has been sent
SentBlocks == {d.block : d \in sentData}

\* C1: DATA packets are sent in lock-step: block n+1 is sent only after an
\* ACK for block n has been received on the dedicated channel, and at most
\* one sent block is unacknowledged at any time, whatever the client's
\* datagrams are.
C1_LockStep ==
    /\ \A b \in SentBlocks : b # 1 => ((b + 65535) % 65536) \in rcvdAcks
    /\ Cardinality(SentBlocks \ rcvdAcks) <= 1

\* block 3 is awaiting its ACK in a transfer that has discarded datagrams
C1_Witness == pc = "wait" /\ block = 3 /\ 3 \in SentBlocks /\ discards >= 2

\* C2: an ACK for another block received while block n is awaited is
\* discarded: retries and block are unchanged, the transfer is not
\* terminated and sends no Error, and it stays in the send loop of block n.
C2_MismatchDiscarded ==
    [][(/\ pc = "wait"
        /\ lastEvent' = "recv"
        /\ ParseACK(lastRecv').err = NoErr
        /\ ParseACK(lastRecv').Block # block)
       => (/\ retries' = retries
           /\ timeouts' = timeouts
           /\ block' = block
           /\ dataPacket' = dataPacket
           /\ acked' = acked
           /\ outcome' = "none"
           /\ sentMain' = sentMain
           /\ pc' = "send")]_vars

\* the ACK of block n-1 has just been discarded while block n was awaited
C2_Witness ==
    /\ pc = "send"
    /\ block >= 2
    /\ lastEvent = "recv"
    /\ lastRecv = PackACK(block - 1)
    /\ retries = 1

\* C3: after MaxRetries timeouts for the outstanding block the transfer
\* sends exactly one Error{NotDefined} and terminates, and from the last
\* timeout on no DATA packet is sent.
C3_Exhausted ==
    timeouts >= MaxRetries =>
        /\ timeouts = MaxRetries
        /\ pc \in {"after", "done"}
        /\ pc = "done" =>
              /\ outcome = "error"
              /\ Len(sentMain) = 1
              /\ ParseERROR(sentMain[1]).err = NoErr
              /\ ParseERROR(sentMain[1]).Code = ErrNotDefined

C3_RetryExhaustion ==
    /\ []C3_Exhausted
    /\ [][timeouts >= MaxRetries =>
            /\ sentData' = sentData
            /\ sendCount' = sendCount
            /\ pc = "after" => (pc' = "done" /\ Len(sentMain') = 1)]_vars

\* a transfer has ended by retry exhaustion after discarding a datagram
C3_Witness ==
    /\ pc = "done"
    /\ timeouts = MaxRetries
    /\ discards >= 1
    /\ sentMain = << PackERROR(ErrNotDefined, MsgNoAck) >>

\* the blocks a file of s bytes is served as
ExpectedBlocks(s) ==
    {[block |-> i, off |-> (i - 1) * 512,
      len |-> IF i <= s \div 512 THEN 512 ELSE s % 512] :
        i \in 1..((s \div 512) + 1)}

\* C4: a transfer in which every block was acknowledged served its file of
\* s bytes as exactly floor(s/512)+1 blocks numbered from 1, all of 512
\* bytes but the last, which has s mod 512 bytes (none when s is a multiple
\* of 512, the empty file included), and it completed on the last ACK.
C4_TerminationRule ==
    outcome = "completed" =>
        /\ sentData = ExpectedBlocks(file.size)
        /\ acked = 1..((file.size \div 512) + 1)
        /\ lastEvent = "recv"

\* a file of two full blocks has been served with its empty third block
C4_Witness ==
    /\ outcome = "completed"
    /\ file.size = 1024
    /\ [block |-> 3, off |-> 1024, len |-> 0] \in sentData

\* C5: a transfer has at most one terminal event, and once it has one it
\* sends nothing more and keeps its outcome.
C5_Terminal ==
    /\ (outcome # "none") <=> (pc = "done")
    /\ Len(sentMain) <= 1
    /\ (outcome = "error") <=> (Len(sentMain) = 1)

C5_OneOutcome ==
    /\ []C5_Terminal
    /\ [][outcome # "none" =>
            /\ outcome' = outcome
            /\ sentMain' = sentMain
            /\ sentData' = sentData
            /\ sendCount' = sendCount]_vars

\* a transfer that had sent full blocks has ended by an Error
C5_Witness ==
    /\ outcome = "error"
    /\ dialed
    /\ \E d \in sentData : d.len = BlockSize

\* the request's filename, joined to the root and cleaned, is not under the
\* root
Outside(name) ==
    LET t == PathElems(ResolvedPath(name))
        b == PathElems(BaseDir)
    IN  ~(Len(t) >= Len(b) /\ SubSeq(t, 1, Len(b)) = b)

\* C6 as stated: every read request whose filename resolves outside the
\* root is answered with Error{AccessViolation}, opens no file and sends no
\* DATA.
C6_AlwaysAccessViolation ==
    (ReqParsed /\ Outside(ReqName)) =>
        /\ ~opened
        /\ sentData = {}
        /\ pc = "done" =>
              /\ Len(sentMain) = 1
              /\ ParseERROR(sentMain[1]).Code = ErrAccessViolation

\* C6 amended: a read request whose filename resolves outside the root
\* opens no file and sends no DATA; it is answered with
\* Error{AccessViolation} when its mode is recognized.
C6_PathContainment ==
    (ReqParsed /\ Outside(ReqName)) =>
        /\ ~opened
        /\ ~dialed
        /\ sentData = {}
        /\ (pc = "done" /\ ReqMode \in {ModeNetascii, ModeOctet, ModeMail}) =>
              /\ outcome = "error"
              /\ Len(sentMain) = 1
              /\ ParseERROR(sentMain[1]).err = NoErr
              /\ ParseERROR(sentMain[1]).Code = ErrAccessViolation

\* the request for ".." in octet mode has been rejected
C6_Witness ==
    /\ pc = "done"
    /\ ReqParsed
    /\ ReqName = NameParent
    /\ ReqMode = ModeOctet
    /\ sentMain = << PackERROR(ErrAccessViolation, MsgAccessDenied) >>

\* C10: a read request whose mode is not netascii, octet or mail is
\* answered with Error{NotDefined, "Unsupported transfer mode"} and aborted
\* with no path resolution, no open and no DATA.
C10_ModeFirst ==
    (ReqParsed /\ ReqMode \notin {ModeNetascii, ModeOctet, ModeMail}) =>
        /\ ~resolved
        /\ ~opened
        /\ ~dialed
        /\ sentData = {}
        /\ pc \in {"handle", "serve", "done"}
        /\ pc = "done" =>
              /\ outcome = "error"
              /\ sentMain = << PackERROR(ErrNotDefined, MsgUnsupportedMode) >>

\* the request for "../../etc/passwd" in mode "binary" has been rejected
C10_Witness ==
    /\ pc = "done"
    /\ ReqParsed
    /\ ReqName = NameEtcPasswd
    /\ ReqMode = ModeBinary
    /\ Len(sentMain) = 1

\* C11: the main socket carries pre-transfer Error packets only: once the
\* transfer has sent its first DATA packet, nothing it sends goes out on the
\* main socket.
C11_MainSocketPreTransfer ==
    [][sentData # {} => sentMain' = sentMain]_vars

\* C12: a datagram on the main socket that is not a well-formed read request
\* is answered with exactly one Error packet and starts no transfer; it is
\* never dropped without an answer.
C12_AlwaysAnswered ==
    (pc = "done" /\ ~ReqParsed) =>
        /\ Len(sentMain) = 1
        /\ ParseERROR(sentMain[1]).err = NoErr
        /\ outcome = "error"
        /\ ~opened
        /\ ~dialed
        /\ sentData = {}

\* C13: the DATA packet of the outstanding block is transmitted once when the
\* block is first sent and once after each timeout; a discarded datagram
\* causes no transmission, so the transmissions of a block never exceed one
\* plus its timeouts.
C13_NoSendOnDiscard ==
    /\ [](sendCount <= 1 + timeouts)
    /\ [][(pc = "wait" /\ lastEvent' = "recv" /\ pc' # "after")
            => pc' = "wait"]_vars
\* C14: every started transfer eventually reaches a terminal state, whatever
\* the client sends, given only fair server steps and ack waits that end by
\* a datagram or by the timeout.
C14_Terminates == dialed ~> (pc = "done")

\* the DATA packet of the terminal block (a payload under 512 bytes) has been
\* sent
TerminalSent == dataPacket \in sentData /\ dataPacket.len < BlockSize

\* C15: completion is ack-gated: a completed transfer has received the
\* matching ACK of its terminal block, by which its last wait ended; a
\* terminal block whose ACK did not arrive never gives Completed, and when
\* its retries run out the transfer ends by the Error of retry exhaustion.
C15_AckGated ==
    /\ outcome = "completed" =>
          /\ TerminalSent
          /\ dataPacket.block \in acked
          /\ lastEvent = "recv"
          /\ ParseACK(lastRecv).err = NoErr
          /\ ParseACK(lastRecv).Block = dataPacket.block
    /\ (TerminalSent /\ dataPacket.block \notin rcvdAcks) =>
          /\ outcome # "completed"
          /\ (pc = "done" /\ timeouts >= MaxRetries) =>
                /\ outcome = "error"
                /\ sentMain = << PackERROR(ErrNotDefined, MsgNoAck) >>

\* a transfer has completed on the ACK of its terminal block after a timeout
\* and a discarded datagram
C15_Witness ==
    /\ outcome = "completed"
    /\ timeouts >= 1
    /\ discards >= 1
    /\ lastRecv = PackACK(dataPacket.block)

\* C16: the payloads of a completed transfer, in block order, are the whole
\* content of the opened resource, and every block but the last carries 512
\* bytes, also when a read returns fewer than 512 bytes before the end of
\* the stream.
C16_ContentIntegrity ==
    outcome = "completed" =>
        /\ \A i \in 0..(file.size - 1) :
              \E d \in sentData : d.off <= i /\ i < d.off + d.len
        /\ \A d, e \in sentData :
              d.block < e.block => d.off + d.len <= e.off
        /\ \A d \in sentData : d.block # dataPacket.block => d.len = BlockSize

\* C17: what a handler decodes as its request is the datagram whose arrival
\* spawned it, in every interleaving with the harness's receive loop.
C17_RequestIsolation ==
    pc \notin {"listen", "handle"} =>
        /\ packet = arrived
        /\ pc = "serve" =>
              /\ ParseRRQ(arrived).err = NoErr
              /\ rrq = [Filename |-> ParseRRQ(arrived).Filename,
                        Mode |-> ParseRRQ(arrived).Mode]

\* C18: a wait for block n is ended, and the transfer advanced, only by a
\* datagram that is exactly the 4-byte Ack of block n; a longer datagram
\* that starts with those four bytes is discarded like any other.
C18_ExactAck ==
    [][(pc = "wait" /\ lastEvent' = "recv" /\ pc' = "after")
          => lastRecv' = PackACK(block)]_vars

\* C20: when the mode and path checks passed and os.Open failed, exactly one
\* Error is sent, with code FileNotFound for a missing file and
\* AccessViolation for any other failure, and the request is over: no
\* dedicated channel, no DATA.
C20_OpenFailure ==
    (opened /\ file.kind \in {"notexist", "denied"}) =>
        /\ pc = "done"
        /\ outcome = "error"
        /\ ~dialed
        /\ sentData = {}
        /\ Len(sentMain) = 1
        /\ ParseERROR(sentMain[1]).err = NoErr
        /\ ParseERROR(sentMain[1]).Code =
              IF file.kind = "notexist" THEN ErrFileNotFound
              ELSE ErrAccessViolation

\* the open of "b" under the root has failed for a reason other than a
\* missing file
C20_Witness ==
    /\ pc = "done"
    /\ rrq.Filename = NameB
    /\ file.kind = "denied"
    /\ sentMain = << PackERROR(ErrAccessViolation, MsgCannotOpen) >>


(***************************************************************************)
(* Exercising the codec: each step applies the codec to one input          *)
(***************************************************************************)
\* bytes the codec inputs are built from: NUL, a control byte, '/', 'a', 0xFF
CodecBytes == {0, 1, 47, 97, 255}

\* all byte strings of length at most len over a set of bytes
RECURSIVE StringsUpTo(_, _)
StringsUpTo(bytes, len) ==
    IF len = 0 THEN {<< >>}
    ELSE LET shorter == StringsUpTo(bytes, len - 1)
         IN  shorter \cup {Append(t, b) : t \in shorter, b \in bytes}

NulFree(str) == \A i \in 1..Len(str) : str[i] # 0

\* "file"
NameFile == <<102, 105, 108, 101>>

CodecStrings == StringsUpTo(CodecBytes, MaxStrLen) \cup {NameFile}

Modes == {ModeNetascii, ModeOctet, ModeMail}

CodecBlocks == {0, 1, 255, 256, 65535}

CodecCodes == {0, 1, 2, 7, 256, 65535}

\* payloads: the short strings and one payload each of 511 and 512 bytes
CodecPayloads ==
    StringsUpTo(CodecBytes, MaxStrLen)
    \cup {[i \in 1..l |-> (i * 7) % 256] : l \in {BlockSize - 1, BlockSize}}

\* all buffers of two bytes over the opcode bytes and 0xFF
TwoByteBuffers == {<<a, b>> : a \in {0, 1, 255}, b \in {0, 1, 2, 3, 4, 5, 255}}

Kinds == {"RRQ", "WRQ", "DATA", "ACK", "ERROR"}

\* the bytes after the opcode of a request buffer of length 4 or more: every
\* string of 2 to MaxStrLen + 2 bytes
RequestBodies ==
    {b \in StringsUpTo(CodecBytes, MaxStrLen + 2) : Len(b) >= 2}

\* the opcode a decoder of the kind expects
OpcodeOf(kind) ==
    CASE kind = "RRQ" -> RRQ
      [] kind = "WRQ" -> WRQ
      [] kind = "DATA" -> DATA
      [] kind = "ACK" -> ACK
      [] kind = "ERROR" -> ERROR

\* the decoder of a kind
Decode(kind, buf) ==
    CASE kind = "RRQ" -> ParseRRQ(buf)
      [] kind = "WRQ" -> ParseWRQ(buf)
      [] kind = "DATA" -> ParseDATA(buf)
      [] kind = "ACK" -> ParseACK(buf)
      [] kind = "ERROR" -> ParseERROR(buf)

\* the inputs an exercise of the codec can start from
CodecInputs ==
    {[op |-> o, in |-> [Filename |-> f, Mode |-> m]] :
        o \in {"RRQ", "WRQ"}, f \in CodecStrings, m \in Modes}
    \cup {[op |-> "DATA", in |-> [Block |-> b, Data |-> p]] :
            b \in CodecBlocks, p \in CodecPayloads}
    \cup {[op |-> "ACK", in |-> [Block |-> b]] : b \in CodecBlocks}
    \cup {[op |-> "ERROR", in |-> [Code |-> c, Message |-> msg]] :
            c \in CodecCodes, msg \in CodecStrings}
    \cup {[op |-> "Decode2", in |-> [kind |-> k, buf |-> buf]] :
            k \in Kinds, buf \in TwoByteBuffers}
    \cup {[op |-> "DecodeRQ",
           in |-> [kind |-> k, buf |-> PutUint16(OpcodeOf(k)) \o b]] :
            k \in {"RRQ", "WRQ"}, b \in RequestBodies}

CodecInit ==
    /\ TaskInit
    /\ \E x \in CodecInputs : cop = x.op /\ cin = x.in
    /\ cstage = "input"
    /\ cwire = << >>
    /\ cout = << >>

CodecRRQ ==
    /\ cstage = "input" /\ cop = "RRQ"
    /\ cwire' = SerializeRRQ(cin)
    /\ cout' = ParseRRQ(cwire')
    /\ cstage' = "done"
    /\ UNCHANGED << cop, cin, taskVars >>

CodecWRQ ==
    /\ cstage = "input" /\ cop = "WRQ"
    /\ cwire' = SerializeWRQ(cin)
    /\ cout' = ParseWRQ(cwire')
    /\ cstage' = "done"
    /\ UNCHANGED << cop, cin, taskVars >>

CodecDATA ==
    /\ cstage = "input" /\ cop = "DATA"
    /\ cwire' = PackDATA(cin.Block, cin.Data)
    /\ cout' = ParseDATA(cwire')
    /\ cstage' = "done"
    /\ UNCHANGED << cop, cin, taskVars >>

CodecACK ==
    /\ cstage = "input" /\ cop = "ACK"
    /\ cwire' = PackACK(cin.Block)
    /\ cout' = ParseACK(cwire')
    /\ cstage' = "done"
    /\ UNCHANGED << cop, cin, taskVars >>

CodecERROR ==
    /\ cstage = "input" /\ cop = "ERROR"
    /\ cwire' = PackERROR(cin.Code, cin.Message)
    /\ cout' = ParseERROR(cwire')
    /\ cstage' = "done"
    /\ UNCHANGED << cop, cin, taskVars >>

\* a buffer of two bytes is handed to one of the five decoders
CodecShort ==
    /\ cstage = "input" /\ cop = "Decode2"
    /\ cwire' = cin.buf
    /\ cout' = Decode(cin.kind, cin.buf)
    /\ cstage' = "done"
    /\ UNCHANGED << cop, cin, taskVars >>

\* a buffer that carries the request's opcode is handed to ParseRRQ or
\* ParseWRQ
CodecRequest ==
    /\ cstage = "input" /\ cop = "DecodeRQ"
    /\ cwire' = cin.buf
    /\ cout' = Decode(cin.kind, cin.buf)
    /\ cstage' = "done"
    /\ UNCHANGED << cop, cin, taskVars >>

CodecNext ==
    \/ CodecRRQ
    \/ CodecWRQ
    \/ CodecDATA
    \/ CodecACK
    \/ CodecERROR
    \/ CodecShort
    \/ CodecRequest

CodecSpec == CodecInit /\ [][CodecNext]_vars

(***************************************************************************)
(* Properties of the codec (under CodecSpec)                               *)
(***************************************************************************)
\* C7: decoding the encoding of a valid message returns the message: for
\* requests with a NUL-free filename and a recognized mode, for DATA with any
\* block and payload, for ACK, and for ERROR with a NUL-free message.
C7_RoundTrip ==
    /\ (cstage = "done" /\ cop \in {"RRQ", "WRQ"} /\ NulFree(cin.Filename)) =>
          /\ cout.err = NoErr
          /\ cout.Filename = cin.Filename
          /\ cout.Mode = cin.Mode
    /\ (cstage = "done" /\ cop = "DATA") =>
          /\ cout.err = NoErr
          /\ cout.Block = cin.Block
          /\ cout.Data = cin.Data
    /\ (cstage = "done" /\ cop = "ACK") => (cout.err = NoErr /\ cout.Block = cin.Block)
    /\ (cstage = "done" /\ cop = "ERROR" /\ NulFree(cin.Message)) =>
          /\ cout.err = NoErr
          /\ cout.Code = cin.Code
          /\ cout.Message = cin.Message

\* a request with the empty filename has made the round trip
C7_Witness ==
    /\ cstage = "done"
    /\ cop = "RRQ"
    /\ cin = [Filename |-> << >>, Mode |-> ModeOctet]
    /\ cout = [err |-> NoErr, Filename |-> << >>, Mode |-> ModeOctet]

\* C8 as stated: decoding any 2-byte buffer as any kind fails with TooShort
C8_AlwaysTooShort ==
    (cstage = "done" /\ cop = "Decode2") => cout.err = ErrPacketTooShort

\* C8 amended: a 2-byte buffer decoded as DATA, ACK or ERROR fails with
\* TooShort; decoded as a request it fails with TooShort when its two bytes
\* are the request's opcode and with InvalidOpcode otherwise.
C8_TwoByteDecode ==
    (cstage = "done" /\ cop = "Decode2") =>
        cout.err = IF cin.kind \in {"RRQ", "WRQ"}
                      /\ Uint16(cwire) # OpcodeOf(cin.kind)
                   THEN ErrInvalidOpcode
                   ELSE ErrPacketTooShort

\* the buffer 00 01 has been decoded as a read request
C8_Witness ==
    /\ cstage = "done"
    /\ cop = "Decode2"
    /\ cin.kind = "RRQ"
    /\ cwire = <<0, 1>>
    /\ cout.err = ErrPacketTooShort

\* C9: a request is framed as opcode (2 bytes, big-endian), filename, NUL,
\* mode, NUL and nothing else; {"file","netascii"} as a read request is
\* 00 01 'f' 'i' 'l' 'e' 00 'n' 'e' 't' 'a' 's' 'c' 'i' 'i' 00.
C9_ExactFraming ==
    /\ (cstage = "done" /\ cop \in {"RRQ", "WRQ"}) =>
          /\ cwire = << 0, IF cop = "RRQ" THEN 1 ELSE 2 >> \o cin.Filename
                        \o <<0>> \o cin.Mode \o <<0>>
          /\ Len(cwire) = 2 + Len(cin.Filename) + 1 + Len(cin.Mode) + 1
    /\ (cstage = "done" /\ cop = "RRQ"
        /\ cin = [Filename |-> NameFile, Mode |-> ModeNetascii]) =>
          cwire = <<0, 1, 102, 105, 108, 101, 0,
                    110, 101, 116, 97, 115, 99, 105, 105, 0>>

\* {"file","netascii"} has been serialized as a read request
C9_Witness ==
    /\ cstage = "done"
    /\ cop = "RRQ"
    /\ cin = [Filename |-> NameFile, Mode |-> ModeNetascii]
    /\ Len(cwire) = 16

\* positions of the zero bytes of a buffer after its opcode (1-based, in the
\* bytes that follow the opcode)
NulsAfterOpcode(buf) == {i \in 1..(Len(buf) - 2) : buf[i + 2] = 0}

\* the least element of a non-empty set of numbers
Least(S) == CHOOSE x \in S : \A y \in S : x <= y

\* C19: a buffer of 4 or more bytes that starts with the request's opcode
\* decodes with MissingTerminator when no zero byte follows the opcode, with
\* Malformed when the first zero byte is the last byte of the buffer, with
\* MissingTerminator when bytes follow the first zero byte and none is zero,
\* and otherwise to the filename before the first zero byte and the mode
\* between the first and the second.
C19_RequestDecode ==
    (cstage = "done" /\ cop = "DecodeRQ") =>
        LET nuls == NulsAfterOpcode(cwire)
            first == Least(nuls)
            later == {i \in nuls : i > first}
        IN  IF nuls = {} THEN cout.err = ErrMissingNullTerm
            ELSE IF first = Len(cwire) - 2 THEN cout.err = ErrInvalidPacket
            ELSE IF later = {} THEN cout.err = ErrMissingNullTerm
            ELSE /\ cout.err = NoErr
                 /\ cout.Filename = SubSeq(cwire, 3, first + 1)
                 /\ cout.Mode = SubSeq(cwire, first + 3, Least(later) + 1)

\* the buffer 00 01 'a' 00 has been decoded as a read request: the filename
\* is terminated and no mode follows
C19_Witness ==
    /\ cstage = "done"
    /\ cop = "DecodeRQ"
    /\ cin.kind = "RRQ"
    /\ cwire = <<0, 1, 97, 0>>
    /\ cout.err = ErrInvalidPacket

====
